---- MODULE Spec2Model ----
(***************************************************************************)
(* phargo: reader of PHP PHAR archives.                                    *)
(*                                                                         *)
(* The model follows NewReader (reader.go) through its phases: getOffset   *)
(* (the stub scan), the rest of ParseManifest, GetSignature, the           *)
(* ParseEntryManifest loop and the CRC loop, and then the streams that     *)
(* File.Open hands out.  A byte source is a sequence of numbers 0..255;    *)
(* a Go string or []byte is the sequence of its bytes.                     *)
(***************************************************************************)
EXTENDS Integers, Sequences, FiniteSets, TLC

VARIABLES
    src,             \* the bytes behind the io.ReaderAt
    size,            \* the size argument of NewReader (stat.Size())
    cgo,             \* build tag: TRUE when the cgo OpenSSL backend is built in
    pc,              \* position of NewReader
    currentPossion,  \* getOffset: read position of the scan
    buffer,          \* getOffset: the window just read
    before,          \* getOffset: the previous window
    stub,            \* what getOffset returned (or that it panicked)
    offset,          \* NewReader: the byte cursor
    manifest,        \* NewReader: the decoded *Manifest
    signature,       \* filePhar.Signature
    Files,           \* filePhar.Files
    crcIdx,          \* CRC loop: number of files already checked
    phar,            \* NewReader's first result
    err,             \* NewReader's second result
    calls,           \* history: the ParseEntryManifest calls made
    allocs,          \* history: the length-prefixed buffers allocated
    phases,          \* history: the phases NewReader has run
    computed,        \* history: the CRC computed for each checked file
    adapters,        \* the readerAtAdapter objects of those streams
    streams          \* the streams handed out by File.Open after the parse

vars == <<src, size, cgo, pc, currentPossion, buffer, before, stub, offset,
          manifest, signature, Files, crcIdx, phar, err, calls, allocs,
          phases, computed, adapters, streams>>

(***************************************************************************)
(* Bounds of the model.                                                    *)
(***************************************************************************)
\* marker start positions explored on each side of the first window boundary
StubSpan == 24
\* entries per generated archive
MaxEntries == 2
\* streams opened after a successful parse
MaxStreams == 2
\* bytes asked for by one Read on a stream
MaxRead == 2

(***************************************************************************)
(* Program constants.                                                      *)
(***************************************************************************)
\* the window size ParseManifest passes to getOffset
bufSize == 200
\* "__HALT_COMPILER(); ?>"
haltCompiler ==
    <<95, 95, 72, 65, 76, 84, 95, 67, 79, 77, 80, 73, 76, 69, 82, 40, 41,
      59, 32, 63, 62>>
CR == 13
LF == 10
Nil == "nil"
EOF == "EOF"

(***************************************************************************)
(* Byte helpers.                                                           *)
(***************************************************************************)
Min(a, b) == IF a < b THEN a ELSE b

Max(a, b) == IF a < b THEN b ELSE a

\* make([]byte, n)
Zeros(n) == [k \in 1..n |-> 0]

\* s[from:to] with Go's 0-based, end-exclusive indices
Slice(s, from, to) == SubSeq(s, from + 1, to)

\* io.ReaderAt.ReadAt of os.File: n bytes of f from off, io.EOF when fewer
\* than len are there, an error for a negative offset, nil for an empty read.
ReadAt(f, len, off) ==
    IF off < 0
    THEN [n |-> 0, data |-> <<>>, err |-> "negative offset"]
    ELSE LET n == Min(len, Max(0, Len(f) - off))
         IN  [n |-> n, data |-> Slice(f, off, off + n),
              err |-> IF n < len THEN EOF ELSE Nil]

\* strings.Index: 0-based index of the first occurrence of sub in s, or -1
Index(s, sub) ==
    LET hits == {k \in 0..(Len(s) - Len(sub)) :
                    /\ s[k + 1] = sub[1]
                    /\ Slice(s, k, k + Len(sub)) = sub}
    IN  IF hits = {} THEN -1
        ELSE CHOOSE k \in hits : \A j \in hits : k <= j

(***************************************************************************)
(* getOffset: one iteration of its for loop.  The result says whether the  *)
(* loop goes on, returns (offset, err) or panics on an index out of range. *)
(***************************************************************************)
getOffsetIter(f, bsize, halt, cur, buf, bef) ==
    LET rd     == ReadAt(f, bsize, cur)
        \* ReadAt overwrites the first n bytes, the rest keeps its old content
        nbuf   == rd.data \o Slice(buf, rd.n, bsize)
        search == bef \o nbuf
        index  == Index(search, halt)
        end    == index + Len(halt)
        off0   == cur + index - bsize + Len(halt)
    IN  IF rd.err # Nil /\ rd.err # EOF
        THEN [kind |-> "return", offset |-> 0, err |-> "can't find haltCompiler",
              cur |-> cur, buf |-> nbuf, bef |-> bef]
        ELSE IF index >= 0
        THEN IF end >= Len(search)
             THEN [kind |-> "return", offset |-> 0,
                   err |-> "unexpected end of file",
                   cur |-> cur, buf |-> nbuf, bef |-> bef]
             ELSE IF end + 1 >= Len(search)
             THEN \* search[index+len(haltCompiler)+1] is out of range
                  [kind |-> "panic", offset |-> 0, err |-> Nil,
                   cur |-> cur, buf |-> nbuf, bef |-> bef]
             ELSE LET nextChar     == search[end + 1]
                      nextNextChar == search[end + 2]
                      crlf == IF nextChar = CR /\ nextNextChar = LF THEN 2 ELSE 0
                      lf   == IF nextChar = LF THEN 1 ELSE 0
                  IN  [kind |-> "return", offset |-> off0 + crlf + lf,
                       err |-> Nil, cur |-> cur, buf |-> nbuf, bef |-> bef]
        ELSE IF rd.err = EOF
        THEN [kind |-> "return",
              offset |-> (cur + rd.n) + index - bsize + Len(halt),
              err |-> Nil, cur |-> cur + rd.n, buf |-> nbuf, bef |-> nbuf]
        ELSE [kind |-> "loop", offset |-> 0, err |-> Nil,
              cur |-> cur + rd.n, buf |-> nbuf, bef |-> nbuf]

(***************************************************************************)
(* Integer decoding.  Values stay below 2^31 in the generated sources.     *)
(***************************************************************************)
\* binary.LittleEndian.Uint32
LE32(b) == b[1] + 256 * b[2] + 65536 * b[3] + 16777216 * b[4]

\* binary.LittleEndian.Uint16
LE16(b) == b[1] + 256 * b[2]

RECURSIVE BitAnd(_, _)
\* a & b on unsigned integers
BitAnd(a, b) ==
    IF a = 0 \/ b = 0 THEN 0
    ELSE (a % 2) * (b % 2) + 2 * BitAnd(a \div 2, b \div 2)

\* bit 0x10000 of the manifest flags: the archive is signed
SignedFlag == 65536
CompressionMask == 61440
EntryCompressedGzip == 4096
EntryCompressedBzip2 == 8192

\* one make([]byte, len) whose length came from the source, with the bytes
\* that remain in the source after the offset it is read from
Alloc(what, len, f, off) ==
    [what |-> what, len |-> len, remaining |-> Max(0, Len(f) - off)]

(***************************************************************************)
(* ParseManifest after getOffset has returned off0.                        *)
(***************************************************************************)
ManifestFail(off, e, al) ==
    [manifest |-> <<>>, offset |-> off, err |-> e, allocs |-> al]

ParseManifestRest(f, off0) ==
    LET rd1 == ReadAt(f, 18, off0)
    IN  IF rd1.err # Nil
        THEN ManifestFail(off0 + rd1.n, "cannot get initials params", <<>>)
        ELSE
        LET p    == rd1.data
            off1 == off0 + 18
            v    == LE16(Slice(p, 8, 10))
            flg  == LE32(Slice(p, 10, 14))
            alen == LE32(Slice(p, 14, 18))
            a1   == <<Alloc("Alias", alen, f, off1)>>
            rd2  == ReadAt(f, alen, off1)
        IN  IF rd2.err # Nil
            THEN ManifestFail(off1 + rd2.n, rd2.err, a1)
            ELSE
            LET off2 == off1 + alen
                rd3  == ReadAt(f, 4, off2)
            IN  IF rd3.err # Nil
                THEN ManifestFail(off2 + rd3.n, rd3.err, a1)
                ELSE
                LET off3 == off2 + 4
                    MetaLength == LE32(rd3.data)
                    a2  == IF MetaLength > 0
                           THEN a1 \o <<Alloc("Metadata", MetaLength, f, off3)>>
                           ELSE a1
                    rd4 == ReadAt(f, MetaLength, off3)
                    m   == [Length        |-> LE32(Slice(p, 0, 4)),
                            EntitiesCount |-> LE32(Slice(p, 4, 8)),
                            Version       |-> <<v % 16, (v \div 16) % 16,
                                                (v \div 256) % 16>>,
                            Flags         |-> flg,
                            Alias         |-> rd2.data,
                            AliasLength   |-> alen,
                            Metadata      |->
                                IF MetaLength > 0 THEN rd4.data ELSE <<>>,
                            IsSigned      |-> BitAnd(flg, SignedFlag) > 0]
                IN  IF MetaLength > 0 /\ rd4.err # Nil
                    THEN ManifestFail(off3 + rd4.n, rd4.err, a2)
                    ELSE [manifest |-> <<m>>,
                          offset   |-> IF MetaLength > 0
                                       THEN off3 + MetaLength ELSE off3,
                          err      |-> Nil,
                          allocs   |-> a2]

(***************************************************************************)
(* GetSignature.  The digests of crypto/md5, sha1, sha256 and sha512 are   *)
(* library code; Sum stands in for them with a rolling checksum spread     *)
(* over the digest length of the algorithm.                                *)
(***************************************************************************)
SignatureMD5 == 1
SignatureSHA1 == 2
SignatureSHA256 == 3
SignatureSHA512 == 4
SignatureOPENSSL == 16
SignatureOPENSSLSHA256 == 17
SignatureOPENSSLSHA512 == 18
\* "GBMB" read as a little-endian uint32
GBMB == 1112359495
MD5Size == 16
SHA1Size == 20
SHA256Size == 32
SHA512Size == 64

ErrOpenssl == "openssl is disabled in this implementation"
ErrInvalidSignature == "invalid signature"
ErrGBMB == "can't find GBMB constant at the end"

RECURSIVE Roll(_, _, _, _)
\* the checksum of data[lo..hi] continued from h, halving the range
Roll(data, lo, hi, h) ==
    IF lo > hi THEN h
    ELSE IF lo = hi THEN (h * 31 + data[lo] + 1) % 65521
    ELSE LET mid  == (lo + hi) \div 2
             left == Roll(data, lo, mid, h)
         IN  IF left >= 0 THEN Roll(data, mid + 1, hi, left) ELSE left

\* hashCalculator.Sum(nil) after writing data: len bytes
Sum(alg, len, data) ==
    LET h == Roll(data, 1, Len(data), alg)
    IN  [k \in 1..len |->
            IF k = 1 THEN h % 256
            ELSE IF k = 2 THEN h \div 256
            ELSE (h + k * alg) % 256]

\* openssl_sha1 / openssl_sha256 / openssl_sha512: a hash with cgo,
\* ErrOpenssl without
openssl_sha(withCgo) == IF withCgo THEN Nil ELSE ErrOpenssl

\* the OpenSSL cases reporting the trailer as verified once a hash is there
OpensslCaseVerified(f, sz, alg, withCgo) ==
    IF openssl_sha(withCgo) # Nil
    THEN [sig |-> <<>>, err |-> openssl_sha(withCgo)]
    ELSE [sig |-> <<[Hash |-> <<>>, Signature |-> alg, GBMB |-> GBMB]>>,
          err |-> Nil]

\* the SignatureOPENSSL cases of the switch
OpensslCase(f, sz, alg, withCgo) ==
    IF openssl_sha(withCgo) # Nil
    THEN [sig |-> <<>>, err |-> openssl_sha(withCgo)]
    ELSE \* Not implemented
         [sig |-> <<>>, err |-> ErrOpenssl]

\* the digest cases with the comparison left out
DigestCaseUnchecked(f, sz, alg, len, what) ==
    LET rdh == ReadAt(f, len, sz - 8 - len)
    IN  IF rdh.err # Nil THEN [sig |-> <<>>, err |-> what]
        ELSE [sig |-> <<[Hash |-> rdh.data, Signature |-> alg, GBMB |-> GBMB]>>,
              err |-> Nil]

\* the digest cases of the switch: read len bytes at size-8-len, hash the
\* first size-8-len bytes and compare
DigestCase(f, sz, alg, len, what) ==
    LET rdh == ReadAt(f, len, sz - 8 - len)
        n   == sz - (8 + len)
        \* io.CopyN from a readerAtAdapter at offset 0
        got == Slice(f, 0, Min(n, Len(f)))
    IN  IF rdh.err # Nil THEN [sig |-> <<>>, err |-> what]
        ELSE IF Len(got) < n THEN [sig |-> <<>>, err |-> EOF]
        ELSE IF rdh.data # Sum(alg, len, got)
        THEN [sig |-> <<>>, err |-> ErrInvalidSignature]
        ELSE [sig |-> <<[Hash |-> rdh.data, Signature |-> alg, GBMB |-> GBMB]>>,
              err |-> Nil]

GetSignature(f, sz, withCgo) ==
    LET rd == ReadAt(f, 8, sz - 8)
    IN  IF rd.err # Nil THEN [sig |-> <<>>, err |-> rd.err]
        ELSE
        LET alg   == LE32(Slice(rd.data, 0, 4))
            magic == LE32(Slice(rd.data, 4, 8))
        IN  IF magic # GBMB THEN [sig |-> <<>>, err |-> ErrGBMB]
            ELSE IF alg = SignatureMD5
            THEN DigestCase(f, sz, alg, MD5Size, "cannot get md5 hash")
            ELSE IF alg = SignatureSHA1
            THEN DigestCase(f, sz, alg, SHA1Size, "cannot get sha1 hash")
            ELSE IF alg = SignatureSHA256
            THEN DigestCase(f, sz, alg, SHA256Size, "cannot get sha256 hash")
            ELSE IF alg = SignatureSHA512
            THEN DigestCase(f, sz, alg, SHA512Size, "cannot get sha512 hash")
            ELSE IF alg \in {SignatureOPENSSL, SignatureOPENSSLSHA256,
                             SignatureOPENSSLSHA512}
            THEN OpensslCase(f, sz, alg, withCgo)
            ELSE [sig |-> <<>>, err |-> ErrInvalidSignature]

(***************************************************************************)
(* path.Clean, by its rules: empty and "." elements go, an inner ".."      *)
(* removes the element before it, a ".." at the start of a rooted path     *)
(* goes, and the empty result is ".".                                      *)
(***************************************************************************)
Slash == 47
Dot == 46

RECURSIVE SplitSlash(_)
SplitSlash(s) ==
    IF s = <<>> THEN << <<>> >>
    ELSE LET r == SplitSlash(Tail(s))
         IN  IF Head(s) = Slash THEN << <<>> >> \o r
             ELSE << <<Head(s)>> \o Head(r) >> \o Tail(r)

RECURSIVE CleanStack(_, _, _)
CleanStack(comps, stack, rooted) ==
    IF comps = <<>> THEN stack
    ELSE LET c == Head(comps)
             rest == Tail(comps)
         IN  IF c = <<>> \/ c = <<Dot>>
             THEN CleanStack(rest, stack, rooted)
             ELSE IF c = <<Dot, Dot>>
             THEN IF stack # <<>> /\ stack[Len(stack)] # <<Dot, Dot>>
                  THEN CleanStack(rest, SubSeq(stack, 1, Len(stack) - 1), rooted)
                  ELSE IF rooted THEN CleanStack(rest, stack, rooted)
                  ELSE CleanStack(rest, Append(stack, c), rooted)
             ELSE CleanStack(rest, Append(stack, c), rooted)

RECURSIVE JoinSlash(_)
JoinSlash(stack) ==
    IF stack = <<>> THEN <<>>
    ELSE IF Len(stack) = 1 THEN stack[1]
    ELSE stack[1] \o <<Slash>> \o JoinSlash(Tail(stack))

Clean(name) ==
    LET rooted == name # <<>> /\ name[1] = Slash
        out    == (IF rooted THEN <<Slash>> ELSE <<>>)
                  \o JoinSlash(CleanStack(SplitSlash(name), <<>>, rooted))
    IN  IF out = <<>> THEN <<Dot>> ELSE out

(***************************************************************************)
(* ParseEntryManifest.  CRC is kept as the four little-endian bytes of the *)
(* uint32, since a CRC uses all 32 bits.                                   *)
(***************************************************************************)
EntryFail(off, e, al) ==
    [file |-> <<>>, offset |-> off, err |-> e, allocs |-> al]

ParseEntryManifest(f, off0) ==
    LET rd1 == ReadAt(f, 4, off0)
    IN  IF rd1.err # Nil
        THEN EntryFail(off0 + rd1.n, "cannot get filename size", <<>>)
        ELSE
        LET filenameSize == LE32(rd1.data)
            a1   == <<Alloc("Filename", filenameSize, f, off0 + 4)>>
            rd2  == ReadAt(f, 28 + filenameSize, off0)
        IN  IF rd2.err # Nil
            THEN EntryFail(off0 + rd2.n, "cannot get meta size", a1)
            ELSE
            LET buff == rd2.data
                off1 == off0 + Len(buff)
                fs4  == filenameSize + 4
                eb   == Slice(buff, fs4, fs4 + 24)
                MetaLength == LE32(Slice(eb, 20, 24))
                a2   == IF MetaLength > 0
                        THEN a1 \o <<Alloc("MetaSerialized", MetaLength, f, off1)>>
                        ELSE a1
                rd3  == ReadAt(f, MetaLength, off1)
                meta == IF MetaLength > 0 THEN rd3.data ELSE <<>>
                flg  == LE32(Slice(eb, 16, 20))
                SizeUncompressed == LE32(Slice(eb, 0, 4))
                SizeCompressed   == LE32(Slice(eb, 8, 12))
                newManifest ==
                    [Filename         |-> Clean(Slice(buff, 4, fs4)),
                     Timestamp        |-> LE32(Slice(eb, 4, 8)),
                     Size             |-> 0,
                     Flags            |-> flg,
                     SizeUncompressed |-> SizeUncompressed,
                     SizeCompressed   |-> SizeCompressed,
                     CRC              |-> Slice(eb, 12, 16),
                     MetaSerialized   |-> meta,
                     dataOffset       |-> 0,
                     dataLen          |->
                        IF BitAnd(flg, CompressionMask) > 0
                        THEN SizeCompressed ELSE SizeUncompressed]
            IN  IF MetaLength > 0 /\ rd3.err # Nil
                THEN EntryFail(off1 + rd3.n, "cannot get meta length", a2)
                ELSE [file |-> <<newManifest>>, offset |-> off1 + Len(meta),
                      err |-> Nil, allocs |-> a2]

(***************************************************************************)
(* hash/crc32 with the table of polynomial 0xedb88320, bit by bit.  A      *)
(* 32-bit value is the pair <<hi, lo>> of its 16-bit halves.               *)
(***************************************************************************)
\* 0xedb88320 as its two 16-bit halves
Crc32PolyHi == 60856
Crc32PolyLo == 33568

RECURSIVE BitXor(_, _)
\* a ^ b on unsigned integers
BitXor(a, b) ==
    IF a = 0 THEN b
    ELSE IF b = 0 THEN a
    ELSE ((a + b) % 2) + 2 * BitXor(a \div 2, b \div 2)

\* one step of the bitwise CRC: shift right, xor the polynomial in when the
\* bit shifted out was set
CrcShift1(c) ==
    LET hi == c[1] \div 2
        lo == (c[2] \div 2) + (c[1] % 2) * 32768
    IN  IF c[2] % 2 = 1
        THEN <<BitXor(hi, Crc32PolyHi), BitXor(lo, Crc32PolyLo)>>
        ELSE <<hi, lo>>

RECURSIVE CrcShift(_, _)
CrcShift(c, n) == IF n = 0 THEN c ELSE CrcShift(CrcShift1(c), n - 1)

RECURSIVE CrcUpdate(_, _, _, _)
\* the register after the bytes data[lo..hi], halving the range
CrcUpdate(c, data, lo, hi) ==
    IF lo > hi THEN c
    ELSE IF lo = hi THEN CrcShift(<<c[1], BitXor(c[2], data[lo])>>, 8)
    ELSE LET mid  == (lo + hi) \div 2
             left == CrcUpdate(c, data, lo, mid)
         IN  IF left[1] >= 0 THEN CrcUpdate(left, data, mid + 1, hi) ELSE left

\* hash.Sum32() after writing data, as four little-endian bytes
Sum32(data) ==
    LET c  == CrcUpdate(<<65535, 65535>>, data, 1, Len(data))
        hi == 65535 - c[1]
        lo == 65535 - c[2]
    IN  <<lo % 256, lo \div 256, hi % 256, hi \div 256>>

(***************************************************************************)
(* File.Open and the streams it returns.  A stream is the cursor of its    *)
(* readerAtAdapter, the N of its io.LimitedReader and its decompressor.    *)
(* compress/gzip and compress/bzip2 are library code; a stored format      *)
(* stands in for both: two magic bytes, then the content as it is.  gzip   *)
(* reads its header in NewReader, bzip2 on the first Read.                 *)
(***************************************************************************)
GzipMagic == <<31, 139>>
Bzip2Magic == <<66, 90>>
\* the buffer io.Copy reads with
CopyBufSize == 32768

\* one adapter kept and handed out again instead of a new one per call
newReaderShared(heap, off) ==
    IF heap = <<>> THEN [heap |-> <<[offset |-> off]>>, id |-> 1]
    ELSE [heap |-> heap, id |-> 1]

\* newReaderFromReaderAtOffset: a new readerAtAdapter on the heap
newReaderFromReaderAtOffset(heap, off) ==
    [heap |-> Append(heap, [offset |-> off]), id |-> Len(heap) + 1]

\* readerAtAdapter.Read for a buffer of k bytes
readerAtAdapterRead(f, heap, id, k) ==
    LET rd == ReadAt(f, k, heap[id].offset)
    IN  [heap |-> [heap EXCEPT ![id].offset = @ + rd.n],
         data |-> rd.data, err |-> rd.err]

\* io.LimitedReader.Read over the adapter, for a buffer of k bytes
LimitedRead(f, heap, s, k) ==
    IF s.N <= 0
    THEN [heap |-> heap, s |-> s, data |-> <<>>, err |-> EOF]
    ELSE LET rd == readerAtAdapterRead(f, heap, s.adapter, Min(k, s.N))
         IN  [heap |-> rd.heap,
              s    |-> [s EXCEPT !.N = @ - Len(rd.data)],
              data |-> rd.data,
              err  |-> rd.err]

\* the codec File.Open selects from the flags
Codec(file) ==
    IF BitAnd(file.Flags, EntryCompressedGzip) > 0 THEN "gzip"
    ELSE IF BitAnd(file.Flags, EntryCompressedBzip2) > 0 THEN "bzip2"
    ELSE "none"

Open(f, heap, file) ==
    LET a == newReaderFromReaderAtOffset(heap, file.dataOffset)
        r == [adapter |-> a.id, N |-> file.dataLen, codec |-> Codec(file),
              header |-> FALSE]
    IN  IF r.codec = "gzip"
        THEN LET hd == LimitedRead(f, a.heap, r, Len(GzipMagic))
             IN  IF hd.data = GzipMagic
                 THEN [heap |-> hd.heap,
                       stream |-> <<[hd.s EXCEPT !.header = TRUE]>>,
                       err |-> Nil]
                 ELSE [heap |-> hd.heap, stream |-> <<>>,
                       err |-> "gzip: invalid header"]
        ELSE [heap |-> a.heap, stream |-> <<r>>, err |-> Nil]

\* Read(p) with len(p) = k on the io.ReadCloser that Open returned
StreamRead(f, heap, s, k) ==
    IF s.codec = "bzip2" /\ ~s.header
    THEN LET hd == LimitedRead(f, heap, s, Len(Bzip2Magic))
         IN  IF hd.data = Bzip2Magic
             THEN LimitedRead(f, hd.heap, [hd.s EXCEPT !.header = TRUE], k)
             ELSE [heap |-> hd.heap, s |-> hd.s, data |-> <<>>,
                   err |-> "bzip2 data invalid"]
    ELSE LimitedRead(f, heap, s, k)

RECURSIVE Drain(_, _, _, _)
\* io.Copy(hash, f): everything the stream delivers up to io.EOF
Drain(f, heap, s, acc) ==
    LET r == StreamRead(f, heap, s, CopyBufSize)
    IN  IF r.err = EOF THEN [data |-> acc \o r.data, err |-> Nil]
        ELSE IF r.err # Nil THEN [data |-> acc \o r.data, err |-> r.err]
        ELSE Drain(f, r.heap, r.s, acc \o r.data)

(***************************************************************************)
(* Sources.                                                                *)
(***************************************************************************)
\* n bytes 'x'
Filler(n) == [k \in 1..n |-> 120]

\* the inverse of binary.LittleEndian.Uint32
LE32Bytes(v) ==
    <<v % 256, (v \div 256) % 256, (v \div 65536) % 256, v \div 16777216>>

\* a manifest without entries: length, count, version 1.1.0, flags, alias
\* length, metadata length
EmptyManifest ==
    LE32Bytes(14) \o LE32Bytes(0) \o <<17, 0>> \o LE32Bytes(0)
    \o LE32Bytes(0) \o LE32Bytes(0)

\* where the marker starts: 0, and around the end of the first window
StubStarts ==
    {0} \cup ((bufSize - Len(haltCompiler) - StubSpan)
                ..(bufSize - Len(haltCompiler) + StubSpan))

\* a stub with the marker at p, a line ending and what follows it
StubSources ==
    {Filler(p) \o haltCompiler \o le \o rest :
        p \in StubStarts,
        le \in {<<>>, <<LF>>, <<CR, LF>>, <<CR>>},
        rest \in {<<>>, <<0>>, EmptyManifest}}

\* sources without the marker
PlainSources == {Filler(n) : n \in {0, 1, 190, 200, 230}}

\* an entry to pack: its descriptor fields and its payload as stored
Ent(name, content, magic, flags, meta) ==
    [name |-> name, payload |-> magic \o content, usize |-> Len(content),
     csize |-> Len(magic \o content), crc |-> Sum32(content),
     flags |-> flags, meta |-> meta]

\* the default permissions of a file, 0666
EntryPermDef_file == 438

Templates ==
    <<Ent(<<97>>, <<65, 83>>, <<>>, EntryPermDef_file, <<>>),
      Ent(<<46, 47, 98>>, <<90>>, <<>>, EntryPermDef_file, <<7>>),
      Ent(<<103>>, <<71, 90>>, GzipMagic, EntryPermDef_file + EntryCompressedGzip, <<>>),
      Ent(<<122>>, <<88>>, Bzip2Magic, EntryPermDef_file + EntryCompressedBzip2, <<>>)>>

\* n templates in turn, starting with the k-th
EntryList(k, n) ==
    [i \in 1..n |-> Templates[((k + i - 2) % Len(Templates)) + 1]]

EntryLists ==
    {EntryList(k, n) : k \in 1..Len(Templates), n \in 0..MaxEntries}

\* the descriptor of an entry in the manifest, with the lengths it declares
EntryBytes(e, nameLen, metaLen) ==
    LE32Bytes(nameLen) \o e.name \o LE32Bytes(e.usize) \o LE32Bytes(1000)
    \o LE32Bytes(e.csize) \o e.crc \o LE32Bytes(e.flags)
    \o LE32Bytes(metaLen) \o e.meta

RECURSIVE Flatten(_)
Flatten(ss) == IF ss = <<>> THEN <<>> ELSE Head(ss) \o Flatten(Tail(ss))

\* an archive: stub, manifest, descriptors and payloads of the entries.  The
\* lengths and the count written into it are arguments, so that a source
\* can declare more than it holds.
Archive(ents, count, flags, aliasLen, nameLen, metaLen) ==
    LET alias == <<112, 104>>
        meta  == <<109>>
        descs == Flatten([i \in 1..Len(ents) |->
                    EntryBytes(ents[i],
                               IF i = 1 /\ nameLen >= 0 THEN nameLen
                               ELSE Len(ents[i].name),
                               IF i = 1 /\ metaLen >= 0 THEN metaLen
                               ELSE Len(ents[i].meta))])
        body  == LE32Bytes(count) \o <<17, 0>> \o LE32Bytes(flags)
                 \o LE32Bytes(IF aliasLen >= 0 THEN aliasLen ELSE Len(alias))
                 \o alias \o LE32Bytes(Len(meta)) \o meta \o descs
    IN  Filler(3) \o haltCompiler \o <<CR, LF>> \o LE32Bytes(Len(body))
        \o body \o Flatten([i \in 1..Len(ents) |-> ents[i].payload])

\* a well-formed unsigned archive of the entries
Plain(ents) == Archive(ents, Len(ents), 0, -1, -1, -1)

\* s with its k-th byte from the end changed
Flip(s, k) == [s EXCEPT ![Len(s) + 1 - k] = (@ + 1) % 128]

\* a length larger than any source
Huge == 1000

UnsignedSources ==
    UNION {
        {Plain(el),
         Archive(el, Len(el) + 1, 0, -1, -1, -1),
         Archive(el, Len(el), 0, Huge, -1, -1)} \cup
        (IF el = <<>> THEN {}
         ELSE {Flip(Plain(el), 1),
               Flip(Plain(el), Len(Flatten([i \in 1..Len(el) |-> el[i].payload]))),
               SubSeq(Plain(el), 1, Len(Plain(el)) - 1),
               Archive(el, Len(el), 0, -1, Huge, -1),
               Archive(el, Len(el), 0, -1, -1, Huge)})
        : el \in EntryLists}

\* the trailer of a signed archive: what stands for the digest or the
\* OpenSSL blob, the algorithm and the magic
Trailer(tail, alg, magic) == tail \o LE32Bytes(alg) \o LE32Bytes(magic)

DigestSize(alg) ==
    IF alg = SignatureMD5 THEN MD5Size
    ELSE IF alg = SignatureSHA1 THEN SHA1Size
    ELSE IF alg = SignatureSHA256 THEN SHA256Size
    ELSE SHA512Size

\* signed archives under a digest algorithm: well signed, with a changed
\* digest, with a changed byte in the hashed range (a payload byte, so that
\* the CRC fails too), with a wrong magic, cut short before the digest,
\* with a wrong digest and one entry less than the count declares, and well
\* signed over a payload that fails its CRC
DigestSources ==
    UNION {
        LET body == Archive(el, Len(el), SignedFlag, -1, -1, -1)
            dg   == Sum(alg, DigestSize(alg), body)
        IN  {body \o Trailer(dg, alg, GBMB),
             body \o Trailer(Flip(dg, 1), alg, GBMB),
             body \o Trailer(Flip(dg, DigestSize(alg)), alg, GBMB),
             body \o Trailer(dg, alg, GBMB + 1),
             Archive(<<>>, 0, SignedFlag, -1, -1, -1)
                \o Trailer(<<>>, alg, GBMB),
             Archive(el, Len(el) + 1, SignedFlag, -1, -1, -1)
                \o Trailer(Zeros(DigestSize(alg)), alg, GBMB)} \cup
            (IF el = <<>> THEN {}
             ELSE {Flip(body, 1) \o Trailer(dg, alg, GBMB),
                   Flip(body, 1)
                      \o Trailer(Sum(alg, DigestSize(alg), Flip(body, 1)),
                                 alg, GBMB)})
        : el \in {EntryList(1, n) : n \in 0..MaxEntries},
          alg \in {SignatureMD5, SignatureSHA1, SignatureSHA256,
                   SignatureSHA512}}

\* signed archives under an OpenSSL algorithm, with different blobs, and
\* under an unknown algorithm
OpensslSources ==
    {Archive(el, Len(el), SignedFlag, -1, -1, -1) \o Trailer(blob, alg, GBMB) :
        el \in {EntryList(1, n) : n \in 0..1},
        blob \in {<<>>, LE32Bytes(0), <<9, 9, 9>> \o LE32Bytes(3),
                  <<9>> \o LE32Bytes(Huge)},
        alg \in {SignatureOPENSSL, SignatureOPENSSLSHA256,
                 SignatureOPENSSLSHA512}}

UnknownSources ==
    {Archive(<<>>, 0, SignedFlag, -1, -1, -1) \o Trailer(<<9, 9>>, alg, magic) :
        alg \in {0, 5, 19}, magic \in {GBMB, 0}}

\* an entry whose descriptor declares sizes and a CRC of its own
Declared(e, usize, csize, crc) ==
    [e EXCEPT !.usize = usize, !.csize = csize, !.crc = crc]

\* unsigned archives of one entry under each value of the compression bits:
\* none with a compressed size of its own, both codecs at once, and the two
\* bits of the mask that name no codec, with the CRC of the bytes stored
\* and with the CRC of other bytes
FlagSources ==
    {Plain(<<Declared(Ent(<<110>>, <<81, 82>>, <<>>, EntryPermDef_file, <<>>),
                      2, 1, Sum32(<<81, 82>>))>>),
     Plain(<<Ent(<<98>>, <<81>>, GzipMagic,
                 EntryPermDef_file + EntryCompressedGzip
                    + EntryCompressedBzip2, <<>>)>>)}
    \cup
    {Plain(<<Declared(Ent(<<114>>, <<81, 82>>, <<>>,
                          EntryPermDef_file + bits, <<>>),
                      5, 2, crc)>>) :
        bits \in {2 * EntryCompressedBzip2, 4 * EntryCompressedBzip2},
        crc \in {Sum32(<<81, 82>>), Sum32(<<81, 82, 83, 84, 85>>)}}

\* unsigned archives cut short inside the payload of their one entry, whose
\* descriptor declares three bytes and the CRC of the bytes that are left
TruncatedSources ==
    {Plain(<<Declared(Ent(<<116>>, kept, <<>>, EntryPermDef_file, <<>>),
                      3, 3, Sum32(kept))>>) :
        kept \in {<<>>, <<81>>, <<81, 82>>, <<81, 82, 83>>}}

Sources ==
    StubSources \cup PlainSources \cup UnsignedSources \cup DigestSources
    \cup OpensslSources \cup UnknownSources \cup FlagSources
    \cup TruncatedSources

(***************************************************************************)
(* NewReader.                                                              *)
(***************************************************************************)
NoErr == [kind |-> Nil, cause |-> Nil, name |-> <<>>]

Error(kind, cause, name) == [kind |-> kind, cause |-> cause, name |-> name]

\* the phase history with ph as its last element
Enter(ph) ==
    IF phases # <<>> /\ phases[Len(phases)] = ph THEN phases
    ELSE Append(phases, ph)

\* where NewReader stands with nfiles descriptors decoded and ncrc checked
Proceed(m, nfiles, ncrc) ==
    IF nfiles < m.EntitiesCount THEN "ParseEntryManifest"
    ELSE IF ncrc < nfiles THEN "crc"
    ELSE "returned"

\* return filePhar, nil once both loops are through
Finish(m, sig, files, ncrc) ==
    IF Proceed(m, Len(files), ncrc) = "returned"
    THEN <<[Menifest |-> m, Signature |-> sig, Files |-> files]>>
    ELSE <<>>

Init ==
    /\ \/ src \in Sources /\ cgo = FALSE
       \/ src \in OpensslSources /\ cgo = TRUE
    /\ size = Len(src)
    /\ pc = "getOffset"
    /\ currentPossion = 0
    /\ buffer = Zeros(bufSize)
    /\ before = Zeros(bufSize)
    /\ stub = [kind |-> "none", offset |-> 0, err |-> Nil]
    /\ offset = 0
    /\ manifest = <<>>
    /\ signature = <<>>
    /\ Files = <<>>
    /\ crcIdx = 0
    /\ phar = <<>>
    /\ err = NoErr
    /\ calls = <<>>
    /\ allocs = <<>>
    /\ phases = <<>>
    /\ computed = <<>>
    /\ adapters = <<>>
    /\ streams = <<>>

\* ParseManifest, first part: one iteration of the loop of getOffset
getOffset ==
    /\ pc = "getOffset"
    /\ phases' = Enter("locate")
    /\ LET r == getOffsetIter(src, bufSize, haltCompiler, currentPossion,
                              buffer, before)
       IN  /\ currentPossion' = r.cur
           /\ buffer' = r.buf
           /\ before' = r.bef
           /\ IF r.kind = "loop"
              THEN /\ pc' = pc
                   /\ UNCHANGED <<stub, offset, err>>
              ELSE IF r.kind = "panic"
              THEN /\ pc' = "panic"
                   /\ stub' = [kind |-> "panic", offset |-> 0, err |-> Nil]
                   /\ UNCHANGED <<offset, err>>
              ELSE /\ stub' = [kind |-> "return", offset |-> r.offset,
                               err |-> r.err]
                   /\ IF r.err # Nil
                      THEN /\ pc' = "returned"
                           /\ err' = Error("cannot parse manifest", r.err, <<>>)
                           /\ UNCHANGED offset
                      ELSE /\ pc' = "ParseManifest"
                           /\ offset' = r.offset
                           /\ UNCHANGED err
    /\ UNCHANGED <<src, size, cgo, manifest, signature, Files, crcIdx, phar,
                   calls, allocs, computed, adapters, streams>>

\* the signed test left out: the loops follow the manifest at once
AfterManifestUnsigned(m) == Proceed(m, 0, 0)

\* if manifest.IsSigned { GetSignature } before the first loop
AfterManifest(m) ==
    IF m.IsSigned THEN "GetSignature" ELSE Proceed(m, 0, 0)

\* ParseManifest, second part, and NewReader up to the signed test
ParseManifest ==
    /\ pc = "ParseManifest"
    /\ phases' = Enter("manifest")
    /\ LET r == ParseManifestRest(src, offset)
       IN  /\ allocs' = allocs \o r.allocs
           /\ IF r.err # Nil
              THEN /\ pc' = "returned"
                   /\ err' = Error("cannot parse manifest", r.err, <<>>)
                   /\ UNCHANGED <<offset, manifest, phar>>
              ELSE /\ manifest' = r.manifest
                   /\ offset' = r.offset
                   /\ pc' = AfterManifest(r.manifest[1])
                   /\ phar' = IF AfterManifest(r.manifest[1]) = "returned"
                              THEN Finish(r.manifest[1], <<>>, <<>>, 0)
                              ELSE phar
                   /\ UNCHANGED err
    /\ UNCHANGED <<src, size, cgo, currentPossion, buffer, before, stub,
                   signature, Files, crcIdx, calls, computed, adapters,
                   streams>>

\* filePhar.Signature, err = GetSignature(r, size)
SignatureStep ==
    /\ pc = "GetSignature"
    /\ phases' = Enter("signature")
    /\ LET r == GetSignature(src, size, cgo)
       IN  IF r.err # Nil
           THEN /\ pc' = "returned"
                /\ err' = Error(r.err, Nil, <<>>)
                /\ UNCHANGED <<signature, phar>>
           ELSE /\ signature' = r.sig
                /\ pc' = Proceed(manifest[1], 0, 0)
                /\ phar' = Finish(manifest[1], r.sig, <<>>, 0)
                /\ UNCHANGED err
    /\ UNCHANGED <<src, size, cgo, currentPossion, buffer, before, stub,
                   offset, manifest, Files, crcIdx, calls, allocs, computed,
                   adapters, streams>>

\* the loop body with the cursor left where it was
EntryLoopStuck(files, off, r) ==
    [Files |-> files \o r.file, offset |-> off]

\* offset = newOffset; filePhar.Files = append(filePhar.Files, manifest)
EntryLoop(files, off, r) ==
    [Files |-> files \o r.file, offset |-> r.offset]

\* one iteration of the loop over manifest.EntitiesCount
EntryStep ==
    /\ pc = "ParseEntryManifest"
    /\ phases' = Enter("entries")
    /\ LET r == ParseEntryManifest(src, offset)
           n == EntryLoop(Files, offset, r)
       IN  /\ calls' = Append(calls, [at |-> offset, file |-> r.file,
                                      next |-> r.offset, err |-> r.err])
           /\ allocs' = allocs \o r.allocs
           /\ IF r.err # Nil
              THEN /\ pc' = "returned"
                   /\ err' = Error("cannot get file entry", r.err, <<>>)
                   /\ UNCHANGED <<offset, Files, phar>>
              ELSE /\ offset' = n.offset
                   /\ Files' = n.Files
                   /\ pc' = Proceed(manifest[1], Len(n.Files), 0)
                   /\ phar' = Finish(manifest[1], signature, n.Files, 0)
                   /\ UNCHANGED err
    /\ UNCHANGED <<src, size, cgo, currentPossion, buffer, before, stub,
                   manifest, signature, crcIdx, computed, adapters, streams>>

\* the comparison left out: every checksum is accepted
CrcDiffersNever(sum, file) == sum # sum

\* hash.Sum32() != file.CRC
CrcDiffers(sum, file) == sum # file.CRC

\* the payload cursor left where it was
PayloadLoopStuck(file, off) ==
    [file |-> [file EXCEPT !.dataOffset = off], offset |-> off]

\* file.dataOffset = offset; offset += file.dataLen
PayloadLoop(file, off) ==
    [file |-> [file EXCEPT !.dataOffset = off], offset |-> off + file.dataLen]

\* one iteration of the loop over filePhar.Files
CrcStep ==
    /\ pc = "crc"
    /\ phases' = Enter("crc")
    /\ LET i    == crcIdx + 1
           pl   == PayloadLoop(Files[i], offset)
           file == pl.file
           o    == Open(src, <<>>, file)
           d    == Drain(src, o.heap, o.stream[1], <<>>)
           sum  == Sum32(d.data)
           fls  == [Files EXCEPT ![i] = file]
       IN  /\ Files' = fls
           /\ offset' = pl.offset
           /\ IF o.err # Nil
              THEN /\ pc' = "returned"
                   /\ err' = Error("cannot checj CRC", o.err, file.Filename)
                   /\ UNCHANGED <<crcIdx, computed, phar>>
              ELSE IF d.err # Nil
              THEN /\ pc' = "returned"
                   /\ err' = Error("fail copy", d.err, file.Filename)
                   /\ UNCHANGED <<crcIdx, computed, phar>>
              ELSE /\ computed' = Append(computed, sum)
                   /\ IF CrcDiffers(sum, file)
                      THEN /\ pc' = "returned"
                           /\ err' = Error("bad CRC", Nil, file.Filename)
                           /\ UNCHANGED <<crcIdx, phar>>
                      ELSE /\ crcIdx' = i
                           /\ pc' = Proceed(manifest[1], Len(fls), i)
                           /\ phar' = Finish(manifest[1], signature, fls, i)
                           /\ UNCHANGED err
    /\ UNCHANGED <<src, size, cgo, currentPossion, buffer, before, stub,
                   manifest, signature, calls, allocs, adapters, streams>>

(***************************************************************************)
(* After a successful parse: callers open entries and read the streams.    *)
(***************************************************************************)
\* f, err := phar.Files[i].Open()
OpenStream(i) ==
    /\ pc = "returned"
    /\ phar # <<>>
    /\ Len(streams) < MaxStreams
    /\ i \in 1..Len(phar[1].Files)
    /\ LET o == Open(src, adapters, phar[1].Files[i])
       IN  /\ adapters' = o.heap
           /\ streams' =
                IF o.err # Nil THEN streams
                ELSE Append(streams,
                            [file |-> i, r |-> o.stream[1],
                             used |-> phar[1].Files[i].dataLen - o.stream[1].N,
                             out |-> <<>>, err |-> Nil])
    /\ UNCHANGED <<src, size, cgo, pc, currentPossion, buffer, before, stub,
                   offset, manifest, signature, Files, crcIdx, phar, err,
                   calls, allocs, phases, computed>>

\* f.Read(p) with len(p) = k on the j-th stream
ReadStream(j, k) ==
    /\ pc = "returned"
    /\ j \in 1..Len(streams)
    /\ streams[j].err = Nil
    /\ LET st == streams[j]
           r  == StreamRead(src, adapters, st.r, k)
       IN  /\ adapters' = r.heap
           /\ streams' = [streams EXCEPT
                            ![j] = [st EXCEPT !.r = r.s,
                                              !.used = @ + (st.r.N - r.s.N),
                                              !.out = @ \o r.data,
                                              !.err = r.err]]
    /\ UNCHANGED <<src, size, cgo, pc, currentPossion, buffer, before, stub,
                   offset, manifest, signature, Files, crcIdx, phar, err,
                   calls, allocs, phases, computed>>

Next ==
    \/ getOffset
    \/ ParseManifest
    \/ SignatureStep
    \/ EntryStep
    \/ CrcStep
    \/ \E i \in 1..MaxEntries : OpenStream(i)
    \/ \E j \in 1..MaxStreams, k \in 1..MaxRead : ReadStream(j, k)

Spec == Init /\ [][Next]_vars

(***************************************************************************)
(* Properties.                                                             *)
(***************************************************************************)
\* NewReader no longer runs
Ended == pc \in {"returned", "panic"}

\* a file descriptor as ParseEntryManifest decoded it, before NewReader
\* assigned its payload offset
Decoded(file) == [file EXCEPT !.dataOffset = 0]

\* C1: every descriptor in Files is the one the call of the same index
\* decoded, the first call starts where ParseManifest ended, every later
\* call starts at the offset the call before it returned, and a successful
\* NewReader returns exactly EntitiesCount files.
C1_EntriesThreaded ==
    /\ Len(calls) >= 1 =>
           calls[1].at = ParseManifestRest(src, stub.offset).offset
    /\ \A i \in 1..(Len(calls) - 1) :
           calls[i].err = Nil /\ calls[i + 1].at = calls[i].next
    /\ Len(Files) = Cardinality({i \in 1..Len(calls) : calls[i].err = Nil})
    /\ \A i \in 1..Len(Files) : Decoded(Files[i]) = calls[i].file[1]
    /\ phar # <<>> =>
           /\ phar[1].Files = Files
           /\ Len(Files) = manifest[1].EntitiesCount
           /\ Len(calls) = manifest[1].EntitiesCount

C1_Witness ==
    /\ phar # <<>>
    /\ Len(phar[1].Files) >= 2
    /\ calls[2].at > calls[1].at

\* C2: NewReader ends with a Phar and no error or with an error and no
\* Phar, nothing else; while it runs it has neither, and once an error is
\* set it has returned.
C2_TwoTerminalStates ==
    /\ Ended => \/ phar # <<>> /\ err = NoErr
                \/ phar = <<>> /\ err # NoErr
    /\ ~Ended => phar = <<>> /\ err = NoErr
    /\ err # NoErr => pc = "returned" /\ phar = <<>>

\* the trailer of the source, as GetSignature reads it
TrailerAlg == LE32(Slice(src, size - 8, size - 4))

TrailerMagic == LE32(Slice(src, size - 4, size))

\* the manifest is decoded and signed, the trailer is there with its magic
\* and GetSignature has run
SignedAndChecked ==
    /\ manifest # <<>>
    /\ manifest[1].IsSigned
    /\ pc # "GetSignature"
    /\ size >= 8
    /\ TrailerMagic = GBMB

\* C3: under MD5, SHA1, SHA256 or SHA512, with the digest range inside the
\* source, a Phar is returned only if the bytes [size-8-L, size-8) are the
\* digest of [0, size-8-L), and if they are not NewReader has returned
\* ErrInvalidSignature.
C3_DigestChecked ==
    (/\ SignedAndChecked
     /\ TrailerAlg \in {SignatureMD5, SignatureSHA1, SignatureSHA256,
                        SignatureSHA512}
     /\ size >= 8 + DigestSize(TrailerAlg))
    => LET L      == DigestSize(TrailerAlg)
           stored == Slice(src, size - 8 - L, size - 8)
           digest == Sum(TrailerAlg, L, Slice(src, 0, size - 8 - L))
       IN  /\ phar # <<>> => stored = digest
           /\ stored # digest =>
                  /\ pc = "returned"
                  /\ phar = <<>>
                  /\ err = Error(ErrInvalidSignature, Nil, <<>>)

C3_Witness ==
    /\ SignedAndChecked
    /\ TrailerAlg = SignatureSHA512
    /\ size >= 8 + SHA512Size
    /\ Files = <<>>
    /\ err = Error(ErrInvalidSignature, Nil, <<>>)

PayloadOffset(i) ==
    LET RECURSIVE Sum1(_)
        Sum1(j) == IF j = 0 THEN 0 ELSE Files[j].dataLen + Sum1(j - 1)
    IN  calls[Len(calls)].next + Sum1(i - 1)

\* what a fresh Open of the i-th file delivers when drained
Drained(i) ==
    LET file == [Files[i] EXCEPT !.dataOffset = PayloadOffset(i)]
        o    == Open(src, <<>>, file)
    IN  IF o.err # Nil THEN [data |-> <<>>, err |-> o.err]
        ELSE Drain(src, o.heap, o.stream[1], <<>>)

\* the stream of the i-th file drains, to a CRC other than the declared one
Mismatch(i) == Drained(i).err = Nil /\ Sum32(Drained(i).data) # Files[i].CRC

\* C5: in a returned Phar every entry's drained stream has the declared
\* CRC; when all descriptors are decoded and entry i is the first whose
\* stream does not drain to its declared CRC, with the streams before it
\* draining, NewReader has returned the bad CRC error with i's name.
C5_CrcChecked ==
    /\ phar # <<>> =>
           \A i \in 1..Len(Files) :
               /\ Files[i].dataOffset = PayloadOffset(i)
               /\ Drained(i).err = Nil
               /\ Sum32(Drained(i).data) = Files[i].CRC
    /\ (/\ pc = "returned"
        /\ manifest # <<>>
        /\ Len(Files) = manifest[1].EntitiesCount
        /\ Len(calls) = Len(Files))
       => \A i \in 1..Len(Files) :
              (/\ Mismatch(i)
               /\ \A j \in 1..(i - 1) : Drained(j).err = Nil /\ ~Mismatch(j))
              => /\ phar = <<>>
                 /\ err = Error("bad CRC", Nil, Files[i].Filename)

C5_Witness ==
    /\ pc = "returned"
    /\ Len(Files) = 2
    /\ crcIdx = 1
    /\ Mismatch(2)
    /\ err = Error("bad CRC", Nil, Files[2].Filename)

\* the first position of the marker in the whole source, or -1
MarkerAt == Index(src, haltCompiler)

\* the length of the one line ending that may follow the marker
LineEnding(at) ==
    IF src[at + 1] = CR /\ src[at + 2] = LF THEN 2
    ELSE IF src[at + 1] = LF THEN 1
    ELSE 0

\* getOffset has ended, by a return or by a panic
Located == stub.kind # "none"

\* C6: for a source without the marker getOffset returns an error, never an
\* offset with a nil error.
C6_MarkerNotFound ==
    (Located /\ MarkerAt = -1) => stub.kind = "return" /\ stub.err # Nil

\* C7: with the marker first at p and two or more bytes after it, getOffset
\* returns p + 21 plus the length of the line ending after the marker.
C7_OffsetAfterMarker ==
    (/\ Located
     /\ MarkerAt >= 0
     /\ Len(src) >= MarkerAt + Len(haltCompiler) + 2)
    => /\ stub.kind = "return"
       /\ stub.err = Nil
       /\ stub.offset = MarkerAt + Len(haltCompiler)
                        + LineEnding(MarkerAt + Len(haltCompiler))

\* C8: getOffset never panics, and with fewer than two bytes after the
\* matched marker it returns the unexpected end error.
C8_UnexpectedEnd ==
    /\ stub.kind # "panic"
    /\ (/\ Located
        /\ MarkerAt >= 0
        /\ Len(src) < MarkerAt + Len(haltCompiler) + 2)
       => stub.kind = "return" /\ stub.err = "unexpected end of file"

\* C9: no buffer is allocated with a length from the source that exceeds
\* the bytes remaining in the source.
C9_AllocationsBounded ==
    \A k \in 1..Len(allocs) : allocs[k].len <= allocs[k].remaining

\* s is the beginning of t
IsPrefix(s, t) == Len(s) <= Len(t) /\ s = SubSeq(t, 1, Len(s))

\* C10: every stream has its own cursor, which stands at the payload
\* offset of its entry plus the bytes this stream has consumed; what a
\* stream has delivered is the beginning of the content of its entry, all
\* of it at io.EOF, so streams of one entry deliver the same bytes; and
\* the descriptors of the returned Phar stay as NewReader left them.
C10_StreamsIndependent ==
    /\ \A j \in 1..Len(streams) :
           LET st == streams[j]
               file == phar[1].Files[st.file]
           IN  /\ adapters[st.r.adapter].offset = file.dataOffset + st.used
               /\ IsPrefix(st.out, Drained(st.file).data)
               /\ st.err = EOF => st.out = Drained(st.file).data
    /\ \A j, k \in 1..Len(streams) :
           j # k => streams[j].r.adapter # streams[k].r.adapter
    /\ phar # <<>> => phar[1].Files = Files

C10_Witness ==
    /\ Len(streams) = 2
    /\ streams[1].file = streams[2].file
    /\ streams[1].err = EOF
    /\ streams[2].err = Nil
    /\ streams[2].out # <<>>
    /\ Len(streams[2].out) < Len(streams[1].out)

\* the i-th file has had its payload offset assigned by NewReader
Assigned(i) == Files[i].dataOffset # 0

\* C11: payload offsets are a running sum.  An assigned offset is, for the
\* first file, the cursor the last ParseEntryManifest call returned and, for
\* a later file, the offset of the file before it plus that file's on-disk
\* length; no offset is assigned before all EntitiesCount descriptors have
\* been decoded; in a returned Phar every file has its offset assigned.
C11_PayloadRunningSum ==
    /\ \A i \in 1..Len(Files) :
           Assigned(i) =>
               /\ Len(Files) = manifest[1].EntitiesCount
               /\ Len(calls) = manifest[1].EntitiesCount
               /\ \A c \in 1..Len(calls) : calls[c].err = Nil
               /\ i = 1 => Files[i].dataOffset = calls[Len(calls)].next
               /\ i > 1 => /\ Assigned(i - 1)
                           /\ Files[i].dataOffset =
                                Files[i - 1].dataOffset + Files[i - 1].dataLen
    /\ pc = "ParseEntryManifest" => \A i \in 1..Len(Files) : ~Assigned(i)
    /\ phar # <<>> =>
           /\ phar[1].Files = Files
           /\ \A i \in 1..Len(Files) : Assigned(i)

C11_Witness ==
    /\ phar # <<>>
    /\ Len(phar[1].Files) = 2
    /\ phar[1].Files[1].dataLen > 0
    /\ phar[1].Files[1].dataOffset = calls[2].next
    /\ phar[1].Files[2].dataOffset =
           phar[1].Files[1].dataOffset + phar[1].Files[1].dataLen

\* the place of a phase in the order of NewReader
Rank(ph) ==
    IF ph = "locate" THEN 1
    ELSE IF ph = "manifest" THEN 2
    ELSE IF ph = "signature" THEN 3
    ELSE IF ph = "entries" THEN 4
    ELSE 5

\* phase ph has been entered
Entered(ph) == \E k \in 1..Len(phases) : phases[k] = ph

\* the error of the signature check on this source, Nil when it passes
SignatureError == GetSignature(src, size, cgo).err

\* the first descriptor after the manifest, read in place, has a payload
\* that does not drain to the CRC it declares
FirstEntryBadCrc ==
    LET m == ParseManifestRest(src, stub.offset)
        r == ParseEntryManifest(src, m.offset)
        o == Open(src, <<>>, [r.file[1] EXCEPT !.dataOffset = r.offset])
        d == Drain(src, o.heap, o.stream[1], <<>>)
    IN  /\ r.err = Nil
        /\ o.err = Nil
        /\ d.err = Nil
        /\ Sum32(d.data) # r.file[1].CRC

\* C12: the phases are entered in the order locate, manifest, signature,
\* entries, CRCs, each at most once; the signature phase is entered exactly
\* for a signed manifest, and then no descriptor is decoded and no CRC
\* computed before it has passed; a signed archive whose signature check
\* fails ends with the signature error, whatever its entries are.
C12_PhaseOrder ==
    /\ \A j, k \in 1..Len(phases) :
           j < k => Rank(phases[j]) < Rank(phases[k])
    /\ manifest # <<>> =>
           /\ Entered("signature") => manifest[1].IsSigned
           /\ (manifest[1].IsSigned
               /\ (Entered("entries") \/ Entered("crc") \/ phar # <<>>
                   \/ calls # <<>> \/ computed # <<>>))
              => /\ Entered("signature")
                 /\ SignatureError = Nil
                 /\ signature # <<>>
           /\ (manifest[1].IsSigned /\ SignatureError # Nil /\ Ended)
              => /\ err = Error(SignatureError, Nil, <<>>)
                 /\ phar = <<>>
                 /\ calls = <<>>
                 /\ computed = <<>>

C12_Witness ==
    /\ pc = "returned"
    /\ manifest # <<>>
    /\ manifest[1].IsSigned
    /\ manifest[1].EntitiesCount >= 1
    /\ FirstEntryBadCrc
    /\ err = Error(ErrInvalidSignature, Nil, <<>>)
    /\ phases = <<"locate", "manifest", "signature">>

\* C13: the codec File.Open selects agrees with the on-disk length
\* ParseEntryManifest chose: a decompressor (gzip or bzip2, one of them)
\* goes with dataLen = SizeCompressed, pass-through with dataLen =
\* SizeUncompressed, for every decoded file and every opened stream.
C13_CodecMatchesLength ==
    /\ \A i \in 1..Len(Files) :
           /\ Codec(Files[i]) \in {"none", "gzip", "bzip2"}
           /\ Codec(Files[i]) \in {"gzip", "bzip2"}
                 => Files[i].dataLen = Files[i].SizeCompressed
           /\ Codec(Files[i]) = "none"
                 => Files[i].dataLen = Files[i].SizeUncompressed
    /\ \A j \in 1..Len(streams) :
           streams[j].r.codec = "none"
             => streams[j].used <= phar[1].Files[streams[j].file].SizeUncompressed

\* C14: in a returned Phar the payload range of every file lies inside the
\* source, and a stream of an uncompressed file that has reached io.EOF
\* has delivered SizeUncompressed bytes.
C14_PayloadInsideSource ==
    phar # <<>> =>
        /\ \A i \in 1..Len(phar[1].Files) :
               phar[1].Files[i].dataOffset + phar[1].Files[i].dataLen <= size
        /\ \A j \in 1..Len(streams) :
               (streams[j].r.codec = "none" /\ streams[j].err = EOF)
                 => Len(streams[j].out) =
                        phar[1].Files[streams[j].file].SizeUncompressed

====
